---- MODULE Spec2Model ----
(***************************************************************************)
(* Per-bin expiration on a record store: the Python client facade          *)
(* (src/python/expire_bin.py, class ExpireBin) in front of the store's     *)
(* atomic single-record execution primitive, client.apply, which runs the  *)
(* operations of the server-side module "expire_bin".                      *)
(*                                                                         *)
(* The facade is translated from the Python source (Python 2: the tuple    *)
(* parameter of clean_call is Python 2 syntax).  The server-side module is *)
(* not among the sources; its operations (the udf_* operators, the codec   *)
(* and the evaluator) are modelled from spec.md sections 3, 4.1-4.3.       *)
(***************************************************************************)
EXTENDS Integers, Sequences, FiniteSets, TLC

VARIABLES rec, now, last, pre

vars == <<rec, now, last, pre>>

-----------------------------------------------------------------------------
(* Bounds of the model. *)

\* The store clock runs from 0 to MaxTime.
MaxTime == 1
\* The longest duration passed as bin_ttl.
MaxTTL == 1
\* get and clean take between 0 and MaxBins bin names.
MaxBins == 2
\* puts and touch take between 0 and MaxBatch entries.
MaxBatch == 2

Keys == {"k1"}
Bins == {"a", "b"}
Values == {1, 2}

-----------------------------------------------------------------------------
(* Constants of the program. *)

MODULE_NAME == "expire_bin"
GET_OP == "get"
PUT_OP == "put"
BATCH_PUT_OP == "puts"
TTL_OP == "ttl"
TOUCH_OP == "touch"
CLEAN_OP == "clean"

\* bin_ttl value that asks for no expiration (docstring of put).
NO_EXPIRATION == -1
\* Python's None: the absent-marker in the list get returns.
None == 0
\* The "never expires" sentinel of expire_at.
NEVER == -1

\* bin_ttl inputs: no expiration, expired on write, and a real duration.
TTLs == {NO_EXPIRATION, 0, MaxTTL}

-----------------------------------------------------------------------------
(* Bin Codec and Expiration Evaluator (spec.md 3, 4.1, 4.2). *)

\* A name with no bin in the record's bin mapping.
Missing == [kind |-> "missing", value |-> None, expire_at |-> NEVER]

\* A plain bin: an ordinary value with no expiration metadata.
PlainBin(v) == [kind |-> "plain", value |-> v, expire_at |-> NEVER]

encode(v, t) == [kind |-> "expire", value |-> v, expire_at |-> t]

\* Variant of decode: content whose expire_at is the sentinel is taken for
\* a plain value.
decode_sentinel_as_plain(c) ==
    [is_expire_bin |-> c.kind = "expire" /\ c.expire_at # NEVER,
     value |-> c.value,
     expire_at |-> NEVER]

decode(c) ==
    [is_expire_bin |-> c.kind = "expire",
     value |-> c.value,
     expire_at |-> IF c.kind = "expire" THEN c.expire_at ELSE NEVER]

status(d, t) ==
    IF ~d.is_expire_bin THEN "NOT_TRACKED"
    ELSE IF d.expire_at # NEVER /\ d.expire_at <= t THEN "EXPIRED"
    ELSE "LIVE"

\* expire_at written for a ttl at time t.
ExpireAt(t, ttl) == IF ttl = NO_EXPIRATION THEN NEVER ELSE t + ttl

EmptyRecord == [b \in Bins |-> Missing]

-----------------------------------------------------------------------------
(* Record Operation Engine (spec.md 4.3), run inside client.apply. *)

\* The value get reports for one name.
get_one(r, b, t) ==
    IF r[b] = Missing THEN None
    ELSE IF status(decode(r[b]), t) \in {"LIVE", "NOT_TRACKED"}
         THEN decode(r[b]).value
         ELSE None

udf_get(r, bins, t) == [i \in 1..Len(bins) |-> get_one(r, bins[i], t)]

\* The create argument travels as an integer; 0 asks for expire-bin creation
\* (the convention of the facade, the only side of the wire among the sources).
CreateRequested(flag) == flag = 0

udf_put(r, bin, val, ttl, flag, t) ==
    IF r[bin] # Missing /\ decode(r[bin]).is_expire_bin
    THEN [r EXCEPT ![bin] = encode(val, ExpireAt(t, ttl))]
    ELSE IF CreateRequested(flag)
         THEN [r EXCEPT ![bin] = encode(val, ExpireAt(t, ttl))]
         ELSE [r EXCEPT ![bin] = PlainBin(val)]

\* One puts entry: ttl present => create, ttl omitted => plain-write policy.
\* (An entry without ttl carries no duration; NO_EXPIRATION stands in for it.)
puts_entry(r, e, t) ==
    IF e.has_ttl THEN udf_put(r, e.bin, e.val, e.ttl, 0, t)
    ELSE udf_put(r, e.bin, e.val, NO_EXPIRATION, 1, t)

\* Entries i..Len(batch) applied in order; the write of entry rejectAt is
\* refused by the store and skipped, earlier writes stay (no rollback).
RECURSIVE puts_from(_, _, _, _, _)
puts_from(r, batch, i, rejectAt, t) ==
    IF i > Len(batch) THEN r
    ELSE puts_from(IF i = rejectAt THEN r ELSE puts_entry(r, batch[i], t),
                   batch, i + 1, rejectAt, t)

udf_puts(r, batch, rejectAt, t) == puts_from(r, batch, 1, rejectAt, t)

\* One touch entry: only an existing expire-bin is rewritten.
touch_entry(r, e, t) ==
    IF r[e.bin] # Missing /\ decode(r[e.bin]).is_expire_bin
    THEN [r EXCEPT ![e.bin] = encode(decode(r[e.bin]).value, ExpireAt(t, e.ttl))]
    ELSE r

RECURSIVE touch_from(_, _, _, _, _)
touch_from(r, batch, i, rejectAt, t) ==
    IF i > Len(batch) THEN r
    ELSE touch_from(IF i = rejectAt THEN r ELSE touch_entry(r, batch[i], t),
                    batch, i + 1, rejectAt, t)

udf_touch(r, batch, rejectAt, t) == touch_from(r, batch, 1, rejectAt, t)

\* clean removes the named bins that are EXPIRED at t.
udf_clean(r, bins, t) ==
    [b \in Bins |->
        IF /\ \E i \in 1..Len(bins) : bins[i] = b
           /\ r[b] # Missing
           /\ status(decode(r[b]), t) = "EXPIRED"
        THEN Missing ELSE r[b]]

-----------------------------------------------------------------------------
(* The store's execution primitive, client.apply (spec.md 6). *)

NoStatus == -1

Request(op, bins, bin, val, ttl, create, batch) ==
    [op |-> op, bins |-> bins, bin |-> bin, val |-> val, ttl |-> ttl,
     create |-> create, batch |-> batch]

\* What apply(key, module, function, args) does to the record r at time t.
\* raise: the primitive fails with a store-level error before running.
\* rejectAt: index of the write the store refuses (0: none).
client_apply(r, t, module, req, raise, rejectAt) ==
    IF raise \/ module # "expire_bin"
         \/ req.op \notin {"get", "put", "puts", "touch", "clean"}
    THEN [raised |-> TRUE, rec |-> r, status |-> NoStatus, values |-> <<>>]
    ELSE IF req.op = "get"
    THEN [raised |-> FALSE, rec |-> r, status |-> NoStatus,
          values |-> udf_get(r, req.bins, t)]
    ELSE IF req.op = "put"
    THEN IF rejectAt # 0
         THEN [raised |-> FALSE, rec |-> r, status |-> 1, values |-> <<>>]
         ELSE [raised |-> FALSE,
               rec |-> udf_put(r, req.bin, req.val, req.ttl, req.create, t),
               status |-> 0, values |-> <<>>]
    ELSE IF req.op = "puts"
    THEN [raised |-> FALSE, rec |-> udf_puts(r, req.batch, rejectAt, t),
          status |-> IF rejectAt \in 1..Len(req.batch) THEN 1 ELSE 0,
          values |-> <<>>]
    ELSE IF req.op = "touch"
    THEN [raised |-> FALSE, rec |-> udf_touch(r, req.batch, rejectAt, t),
          status |-> IF rejectAt \in 1..Len(req.batch) THEN 1 ELSE 0,
          values |-> <<>>]
    ELSE IF rejectAt # 0
         THEN [raised |-> FALSE, rec |-> r, status |-> 1, values |-> <<>>]
         ELSE [raised |-> FALSE, rec |-> udf_clean(r, req.bins, t),
               status |-> 0, values |-> <<>>]

-----------------------------------------------------------------------------
(* Client facade: class ExpireBin of expire_bin.py. *)

\* The attributes the class statement binds.  puts, touch and clean are
\* def statements placed inside the body of put, after the try statement
\* whose two branches return or raise: they are never executed, and they
\* would bind names local to put, not attributes of the class.
Methods == {"__init__", "get", "put"}

\* Variant of CreateFlag: the flag sent as the usual truth value.
CreateFlagAsTruth(create) == IF create THEN 1 ELSE 0

\* Variant of CreateFlag: 1 is sent whatever create is.
CreateFlagAlwaysOne(create) == 1

\* create is translated to the integer sent to the store.
CreateFlag(create) == IF create THEN 0 ELSE 1

\* Variant of GetCall: the function named is clean.
GetCallAsClean(bins) == Request(CLEAN_OP, bins, "", None, NO_EXPIRATION, 1, <<>>)

\* Variant of GetCall: only the first name is passed on.
GetCallFirstOnly(bins) ==
    Request(GET_OP, SubSeq(bins, 1, IF Len(bins) > 0 THEN 1 ELSE 0), "", None,
            NO_EXPIRATION, 1, <<>>)

\* Variant of GetCall: list(set(bins)) in place of list(bins); every name is
\* passed on once, at the place of its first occurrence.
GetCallDeduplicated(bins) ==
    LET keep == {i \in 1..Len(bins) : \A j \in 1..(i - 1) : bins[j] # bins[i]}
    IN Request(GET_OP,
               [k \in 1..Cardinality(keep) |->
                   bins[CHOOSE i \in keep : Cardinality({j \in keep : j <= i}) = k]],
               "", None, NO_EXPIRATION, 1, <<>>)

\* Variant of PutCall: val and bin_ttl change places in the argument list.
PutCallSwapped(bin, val, bin_ttl, create) ==
    Request(PUT_OP, <<>>, bin, bin_ttl, val, CreateFlag(create), <<>>)

\* Variant of PutCall: a negative bin_ttl is sent as 0.
PutCallClamped(bin, val, bin_ttl, create) ==
    Request(PUT_OP, <<>>, bin, val, IF bin_ttl < 0 THEN 0 ELSE bin_ttl,
            CreateFlag(create), <<>>)

\* Variant of TouchCall: the function named is clean, on the entries' bins.
TouchCallAsClean(mapBins) ==
    Request(CLEAN_OP, [i \in 1..Len(mapBins) |-> mapBins[i].bin], "", None,
            NO_EXPIRATION, 1, <<>>)

\* Variant of CleanCall: the function named is touch, with the longest
\* duration for every bin.
CleanCallAsTouch(bins) ==
    Request(TOUCH_OP, <<>>, "", None, NO_EXPIRATION, 1,
            [i \in 1..Len(bins) |->
                [bin |-> bins[i], val |-> None, ttl |-> MaxTTL, has_ttl |-> TRUE]])

\* Function name and argument list handed to client.apply by each method.
GetCall(bins) == Request(GET_OP, bins, "", None, NO_EXPIRATION, 1, <<>>)

PutCall(bin, val, bin_ttl, create) ==
    Request(PUT_OP, <<>>, bin, val, bin_ttl, CreateFlag(create), <<>>)

PutsCall(binMaps) == Request(BATCH_PUT_OP, <<>>, "", None, NO_EXPIRATION, 1, binMaps)

TouchCall(mapBins) == Request(TOUCH_OP, <<>>, "", None, NO_EXPIRATION, 1, mapBins)

CleanCall(bins) == Request(CLEAN_OP, bins, "", None, NO_EXPIRATION, 1, <<>>)

\* What the caller of a method observes.
Raised(error) ==
    [outcome |-> "raise", error |-> error, status |-> NoStatus, values |-> <<>>]

Returned(status_, values) ==
    [outcome |-> "return", error |-> "", status |-> status_, values |-> values]

\* Variant of TryApply: the handler swallows the exception (the method
\* then returns None).
TryApplySwallow(ret) ==
    IF ret.raised THEN Returned(NoStatus, <<>>) ELSE Returned(ret.status, ret.values)

\* try: return self.client.apply(...)  except Exception as e: raise
TryApply(ret) ==
    IF ret.raised THEN Raised("StoreError") ELSE Returned(ret.status, ret.values)

\* The record of the most recent call: its arguments, the store's
\* disposition (raise, rejectAt) and what the caller observed.
Call(op, key, bins, bin, val, ttl, create, batch, raise, rejectAt, res) ==
    [op |-> op, key |-> key, bins |-> bins, bin |-> bin, val |-> val,
     ttl |-> ttl, create |-> create, batch |-> batch, raise |-> raise,
     rejectAt |-> rejectAt, outcome |-> res.outcome, error |-> res.error,
     status |-> res.status, values |-> res.values]

Idle(op) ==
    Call(op, "", <<>>, "", None, NO_EXPIRATION, FALSE, <<>>, FALSE, 0,
         Returned(NoStatus, <<>>))

-----------------------------------------------------------------------------
(* Inputs. *)

SeqsUpTo(S, n) == UNION {[1..m -> S] : m \in 0..n}

BinLists == SeqsUpTo(Bins, MaxBins)

\* Entries {'bin', 'val', 'bin_ttl'} of puts; bin_ttl may be omitted.
PutsEntries ==
    [bin : Bins, val : Values, ttl : {MaxTTL}, has_ttl : {TRUE}]
    \cup [bin : Bins, val : Values, ttl : {NO_EXPIRATION}, has_ttl : {FALSE}]

\* The batches tried: no entry twice, and the entries' values alternate, so
\* that two entries for one bin are told apart by their value.
ValAt(i) == 1 + ((i - 1) % Cardinality(Values))

PutsBatches ==
    {s \in SeqsUpTo(PutsEntries, MaxBatch) :
        /\ \A i \in 1..Len(s) : s[i].val = ValAt(i)
        /\ \A i, j \in 1..Len(s) :
              (s[i].bin = s[j].bin /\ s[i].has_ttl = s[j].has_ttl) => i = j}

\* Entries {'bin', 'bin_ttl'} of touch.
TouchEntries == [bin : Bins, val : {None}, ttl : {MaxTTL}, has_ttl : {TRUE}]

-----------------------------------------------------------------------------
(* State and operations. *)

Init ==
    /\ rec = [k \in Keys |-> EmptyRecord]
    /\ now = 0
    /\ last = Idle("init")
    /\ pre = rec

\* The store clock advances.
Tick ==
    /\ now < MaxTime
    /\ now' = now + 1
    /\ last' = Idle("tick")
    /\ pre' = rec
    /\ UNCHANGED rec

\* ExpireBin.get(key, *bins)
Get(key, bins, raise) ==
    LET ret == client_apply(rec[key], now, MODULE_NAME, GetCall(bins), raise, 0)
    IN /\ rec' = [rec EXCEPT ![key] = ret.rec]
       /\ last' = Call("get", key, bins, "", None, NO_EXPIRATION, FALSE, <<>>,
                       raise, 0, TryApply(ret))
       /\ pre' = rec
       /\ UNCHANGED now

\* Variant of Put: client.apply is handed one fixed key in place of the
\* caller's key.
PutAtFixedKey(key, bin, val, bin_ttl, create, raise, rejectAt) ==
    LET fixed == "k1"
        ret == client_apply(rec[fixed], now, MODULE_NAME,
                            PutCall(bin, val, bin_ttl, create), raise, rejectAt)
    IN /\ rec' = [rec EXCEPT ![fixed] = ret.rec]
       /\ last' = Call("put", key, <<>>, bin, val, bin_ttl, create, <<>>,
                       raise, rejectAt, TryApply(ret))
       /\ pre' = rec
       /\ UNCHANGED now

\* ExpireBin.put(key, bin, val, bin_ttl, create)
Put(key, bin, val, bin_ttl, create, raise, rejectAt) ==
    LET ret == client_apply(rec[key], now, MODULE_NAME,
                            PutCall(bin, val, bin_ttl, create), raise, rejectAt)
    IN /\ rec' = [rec EXCEPT ![key] = ret.rec]
       /\ last' = Call("put", key, <<>>, bin, val, bin_ttl, create, <<>>,
                       raise, rejectAt, TryApply(ret))
       /\ pre' = rec
       /\ UNCHANGED now

\* eb.puts(key, *binMaps): the attribute lookup on the instance comes first.
Puts(key, binMaps, rejectAt) ==
    LET ret == client_apply(rec[key], now, MODULE_NAME, PutsCall(binMaps),
                            FALSE, rejectAt)
        bound == "puts" \in Methods
    IN /\ rec' = IF bound THEN [rec EXCEPT ![key] = ret.rec] ELSE rec
       /\ last' = Call("puts", key, <<>>, "", None, NO_EXPIRATION, FALSE, binMaps,
                       FALSE, rejectAt,
                       IF bound THEN TryApply(ret) ELSE Raised("AttributeError"))
       /\ pre' = rec
       /\ UNCHANGED now

\* eb.touch(key, *mapBins): the def has no self parameter and its body reads
\* self, so even a bound touch would stop with NameError before client.apply.
Touch(key, mapBins, rejectAt) ==
    LET bound == "touch" \in Methods
    IN /\ last' = Call("touch", key, <<>>, "", None, NO_EXPIRATION, FALSE, mapBins,
                       FALSE, rejectAt,
                       IF bound THEN Raised("NameError") ELSE Raised("AttributeError"))
       /\ pre' = rec
       /\ UNCHANGED <<rec, now>>

\* eb.clean(scan, *bins): the def has no self parameter and clean_call reads
\* self, so even a bound clean would stop with NameError before client.apply.
Clean(bins, rejectAt) ==
    LET bound == "clean" \in Methods
    IN /\ last' = Call("clean", "", bins, "", None, NO_EXPIRATION, FALSE, <<>>,
                       FALSE, rejectAt,
                       IF bound THEN Raised("NameError") ELSE Raised("AttributeError"))
       /\ pre' = rec
       /\ UNCHANGED <<rec, now>>

DoGet == \E key \in Keys, bins \in BinLists, raise \in BOOLEAN : Get(key, bins, raise)

DoPut ==
    \E key \in Keys, bin \in Bins, val \in Values, bin_ttl \in TTLs,
       create \in BOOLEAN, fault \in {"none", "raise", "reject"} :
        Put(key, bin, val, bin_ttl, create, fault = "raise",
            IF fault = "reject" THEN 1 ELSE 0)

DoPuts ==
    \E key \in Keys, binMaps \in PutsBatches :
        \E rejectAt \in {0, Len(binMaps)} : Puts(key, binMaps, rejectAt)

DoTouch ==
    \E key \in Keys, mapBins \in SeqsUpTo(TouchEntries, MaxBatch) :
        Touch(key, mapBins, 0)

DoClean == \E bins \in BinLists : Clean(bins, 0)

Next == Tick \/ DoGet \/ DoPut \/ DoPuts \/ DoTouch \/ DoClean

Spec == Init /\ [][Next]_vars

-----------------------------------------------------------------------------
(* The bodies of puts, touch and clean as written, run against the store.  *)
(* ExpireBin never binds these three functions (see Methods), so no caller *)
(* of the class reaches them; the server-side operations they name are     *)
(* reached by whoever hands the same request to client.apply.  SpecStore   *)
(* is the store driven by get and put through the class and by these three *)
(* requests directly.                                                      *)

\* Variant of clean_call: the callback cleans the scan's snapshot of the
\* record and that image replaces the record.
clean_call_on_snapshot(r, record, bins, t) ==
    client_apply(record, t, MODULE_NAME, CleanCall(bins), FALSE, 0)

\* clean_call((key, metadata, record)): the snapshot `record` is not read;
\* the clean request goes to the record r now stored at key.
clean_call(r, record, bins, t) ==
    client_apply(r, t, MODULE_NAME, CleanCall(bins), FALSE, 0)

\* try: return self.client.apply(key, MODULE_NAME, BATCH_PUT_OP, list(binMaps), ...)
StorePuts(key, binMaps, rejectAt) ==
    LET ret == client_apply(rec[key], now, MODULE_NAME, PutsCall(binMaps),
                            FALSE, rejectAt)
    IN /\ rec' = [rec EXCEPT ![key] = ret.rec]
       /\ last' = Call("puts", key, <<>>, "", None, NO_EXPIRATION, FALSE, binMaps,
                       FALSE, rejectAt, TryApply(ret))
       /\ pre' = rec
       /\ UNCHANGED now

\* try: return self.client.apply(key, MODULE_NAME, TOUCH_OP, list(mapBins), ...)
StoreTouch(key, mapBins, rejectAt) ==
    LET ret == client_apply(rec[key], now, MODULE_NAME, TouchCall(mapBins),
                            FALSE, rejectAt)
    IN /\ rec' = [rec EXCEPT ![key] = ret.rec]
       /\ last' = Call("touch", key, <<>>, "", None, NO_EXPIRATION, FALSE, mapBins,
                       FALSE, rejectAt, TryApply(ret))
       /\ pre' = rec
       /\ UNCHANGED now

\* One visit of the scan: clean_call on (key, metadata, record).  The
\* callback returns nothing.
ScanClean(key, record, bins) ==
    LET ret == clean_call(rec[key], record, bins, now)
    IN /\ rec' = [rec EXCEPT ![key] = ret.rec]
       /\ last' = Call("clean", key, bins, "", None, NO_EXPIRATION, FALSE, <<>>,
                       FALSE, 0,
                       IF ret.raised THEN Raised("StoreError")
                       ELSE Returned(NoStatus, <<>>))
       /\ pre' = rec
       /\ UNCHANGED now

\* Snapshots the scan may hand over for a record that is r by now: the
\* record as it is, or an older image in which every bin is an expire-bin
\* that expired at time 0.
Snapshots(r) == {r, [b \in Bins |-> encode(ValAt(1), 0)]}

\* The requests handed to the store directly carry at most one entry; the
\* order of entries within a batch is the concern of Puts.
StorePutsBatches == {s \in PutsBatches : Len(s) <= 1}

StoreTouchBatches == SeqsUpTo(TouchEntries, 1)

DoStorePuts ==
    \E key \in Keys, binMaps \in StorePutsBatches :
        \E rejectAt \in {0, Len(binMaps)} : StorePuts(key, binMaps, rejectAt)

DoStoreTouch ==
    \E key \in Keys, mapBins \in StoreTouchBatches :
        StoreTouch(key, mapBins, 0)

DoScanClean ==
    \E key \in Keys, bins \in BinLists :
        \E record \in Snapshots(rec[key]) : ScanClean(key, record, bins)

NextStore == Tick \/ DoGet \/ DoPut \/ DoStorePuts \/ DoStoreTouch \/ DoScanClean

SpecStore == Init /\ [][NextStore]_vars

-----------------------------------------------------------------------------
(* Two records.  SpecKeys is the store holding a record at each of two     *)
(* keys, driven by the class (get, put, clean) and by the puts, touch and  *)
(* clean requests; the calls address one bin, which keeps the two records  *)
(* small.                                                                  *)

AllKeys == Keys \cup {"k2"}

\* The order in which a scan of the set supplies the records.
ScanOrder == <<"k1", "k2">>

KeyBins == {"a"}

KeyBinLists == SeqsUpTo(KeyBins, MaxBins)

InitKeys ==
    /\ rec = [k \in AllKeys |-> EmptyRecord]
    /\ now = 0
    /\ last = Idle("init")
    /\ pre = rec

KeysGet ==
    \E key \in AllKeys, bins \in KeyBinLists, raise \in BOOLEAN : Get(key, bins, raise)

KeysPut ==
    \E key \in AllKeys, bin \in KeyBins, val \in Values, bin_ttl \in TTLs,
       create \in BOOLEAN, fault \in {"none", "raise", "reject"} :
        Put(key, bin, val, bin_ttl, create, fault = "raise",
            IF fault = "reject" THEN 1 ELSE 0)

KeysPuts ==
    \E key \in AllKeys,
       binMaps \in {s \in PutsBatches : \A i \in 1..Len(s) : s[i].bin \in KeyBins} :
        \E rejectAt \in {0, Len(binMaps)} : StorePuts(key, binMaps, rejectAt)

KeysTouch ==
    \E key \in AllKeys,
       mapBins \in SeqsUpTo({e \in TouchEntries : e.bin \in KeyBins}, MaxBatch) :
        StoreTouch(key, mapBins, 0)

KeysScanClean ==
    \E key \in AllKeys, bins \in KeyBinLists : ScanClean(key, rec[key], bins)

\* eb.clean(scan, *bins) over the whole set; rejectAt is the place in the
\* scan of the record on which clean fails (0: none).
KeysClean ==
    \E bins \in KeyBinLists, rejectAt \in 0..Len(ScanOrder) : Clean(bins, rejectAt)

NextKeys ==
    Tick \/ KeysGet \/ KeysPut \/ KeysPuts \/ KeysTouch \/ KeysScanClean \/ KeysClean

SpecKeys == InitKeys /\ [][NextKeys]_vars

-----------------------------------------------------------------------------
(* Properties.  rec is the store after the most recent call, pre the store *)
(* before it, last the call, and now the time at which it ran.             *)

IsExpireBin(c) == c.kind = "expire"
IsExpired(c, t) == c # Missing /\ status(decode(c), t) = "EXPIRED"
Named(bins, b) == \E i \in 1..Len(bins) : bins[i] = b
Succeeded == last.outcome = "return" /\ last.status = 0

\* C1: lazy expiration on read.  A get the store does not fail returns, for
\* every requested expire-bin whose expire_at is a timestamp T, the bin's
\* value when now < T and the absent-marker when now >= T (now = T included).
C1_LazyExpirationOnRead ==
    (last.op = "get" /\ ~last.raise) =>
        /\ last.outcome = "return"
        /\ Len(last.values) = Len(last.bins)
        /\ \A i \in 1..Len(last.bins) :
             LET c == pre[last.key][last.bins[i]]
             IN (IsExpireBin(c) /\ c.expire_at # NEVER) =>
                   /\ (now < c.expire_at => last.values[i] = c.value)
                   /\ (now >= c.expire_at => last.values[i] = None)

\* A get that named a bin expiring exactly now (reported absent) and a bin
\* expiring later (reported with its value).
C1_Witness ==
    /\ last.op = "get" /\ last.outcome = "return"
    /\ \E i, j \in 1..Len(last.bins) :
         LET c == pre[last.key][last.bins[i]]
             d == pre[last.key][last.bins[j]]
         IN /\ IsExpireBin(c) /\ c.expire_at = now /\ last.values[i] = None
            /\ IsExpireBin(d) /\ d.expire_at > now /\ last.values[j] = d.value

\* C2: get is read-only.  Whatever names are requested, at whatever time, and
\* whether the store fails or not, the store's records are the same before
\* and after get.
C2_GetReadOnly == last.op = "get" => rec = pre

\* A get that returned after naming an EXPIRED bin and a missing bin.
C2_Witness ==
    /\ last.op = "get" /\ last.outcome = "return" /\ rec = pre
    /\ \E i, j \in 1..Len(last.bins) :
         /\ IsExpired(pre[last.key][last.bins[i]], now)
         /\ pre[last.key][last.bins[j]] = Missing

C4_NoDowngrade_AsStated ==
    /\ \A k \in Keys, b \in Bins :
         IsExpireBin(pre[k][b]) => rec[k][b].kind # "plain"
    /\ (last.op = "put" /\ Succeeded /\ ~last.create
          /\ IsExpireBin(pre[last.key][last.bin])) =>
         rec[last.key][last.bin] = encode(last.val, now + last.ttl)

\* C4 (amended): no operation turns an expire-bin into a plain bin, and a
\* successful put with create=false on an expire-bin sets value to v and
\* expire_at to now + ttl, or to NEVER when ttl is the no-expiration ttl -1.
C4_NoDowngrade ==
    /\ \A k \in Keys, b \in Bins :
         IsExpireBin(pre[k][b]) => rec[k][b].kind # "plain"
    /\ (last.op = "put" /\ Succeeded /\ ~last.create
          /\ IsExpireBin(pre[last.key][last.bin])) =>
         LET c == rec[last.key][last.bin]
         IN /\ IsExpireBin(c) /\ c.value = last.val
            /\ c.expire_at = IF last.ttl = NO_EXPIRATION THEN NEVER
                             ELSE now + last.ttl

\* A put with create=false that rewrote an expire-bin: new value, new
\* expire_at, still an expire-bin.
C4_Witness ==
    /\ last.op = "put" /\ Succeeded /\ ~last.create
    /\ IsExpireBin(pre[last.key][last.bin])
    /\ IsExpireBin(rec[last.key][last.bin])
    /\ pre[last.key][last.bin].value # rec[last.key][last.bin].value
    /\ pre[last.key][last.bin].expire_at # rec[last.key][last.bin].expire_at

\* The last entry of the batch that names the bin of entry i.
LastFor(batch, i) == \A j \in 1..Len(batch) : batch[j].bin = batch[i].bin => j <= i

\* C5: reaper correctness.  After clean(bins) at time now, every named bin
\* that was EXPIRED at now is absent from its record, and every other bin
\* (LIVE, plain, missing, or not named) is as it was before.
C5_ReaperCorrectness ==
    last.op = "clean" =>
        \A k \in Keys, b \in Bins :
            rec[k][b] = IF Named(last.bins, b) /\ IsExpired(pre[k][b], now)
                        THEN Missing ELSE pre[k][b]

\* C6: touch no-op safety.  An entry whose bin is missing or plain leaves
\* that bin as it was, the call returns (with status 0 when no entry names
\* an expire-bin), and the entries that name expire-bins are applied.
C6_TouchNoOpSafety ==
    last.op = "touch" =>
        /\ last.outcome = "return"
        /\ (\A i \in 1..Len(last.batch) :
              ~IsExpireBin(pre[last.key][last.batch[i].bin])) => last.status = 0
        /\ \A i \in 1..Len(last.batch) :
             LET e == last.batch[i]
                 c == pre[last.key][e.bin]
             IN IF IsExpireBin(c)
                THEN LastFor(last.batch, i) =>
                        rec[last.key][e.bin] = encode(c.value, ExpireAt(now, e.ttl))
                ELSE rec[last.key][e.bin] = c

\* C7: touch refresh.  For every entry whose bin is an expire-bin, LIVE or
\* EXPIRED and not yet reaped, touch sets expire_at = now + ttl and keeps the
\* value, so that with ttl > 0 a get at the same time returns the value.
C7_TouchRefresh ==
    last.op = "touch" =>
        \A i \in 1..Len(last.batch) :
            LET e == last.batch[i]
                c == pre[last.key][e.bin]
            IN (IsExpireBin(c) /\ LastFor(last.batch, i)) =>
                  /\ rec[last.key][e.bin].value = c.value
                  /\ rec[last.key][e.bin].expire_at = now + e.ttl
                  /\ e.ttl > 0 => get_one(rec[last.key], e.bin, now) = c.value

\* C8: puts entry policy.  When the store accepts every write of a puts
\* batch, the call returns status 0, an entry with a ttl turns a
\* non-existent bin into an expire-bin expiring at now + ttl, and an entry
\* without ttl turns a non-existent bin into a plain bin.
C8_PutsEntryPolicy ==
    (last.op = "puts" /\ last.rejectAt = 0) =>
        /\ Succeeded
        /\ \A i \in 1..Len(last.batch) :
             LET e == last.batch[i]
             IN (pre[last.key][e.bin] = Missing
                   /\ \A j \in 1..Len(last.batch) : last.batch[j].bin = e.bin => j = i) =>
                  rec[last.key][e.bin] = IF e.has_ttl THEN encode(e.val, now + e.ttl)
                                         ELSE PlainBin(e.val)

\* C9: non-atomic batch.  When the store rejects the write of one entry of a
\* puts batch, the call returns status 1 and the entries before the rejected
\* one stay applied; puts returns 0 only if no write was rejected.
C9_NonAtomicBatch ==
    last.op = "puts" =>
        /\ (last.outcome = "return" /\ last.status = 0) => last.rejectAt = 0
        /\ last.rejectAt # 0 =>
             /\ last.outcome = "return" /\ last.status = 1
             /\ \A i \in 1..(last.rejectAt - 1) :
                  LET e == last.batch[i]
                  IN (\A j \in 1..Len(last.batch) : last.batch[j].bin = e.bin => j = i) =>
                        rec[last.key][e.bin].value = e.val

\* C10: store errors are never masked.  Whenever client.apply raises a
\* store-level failure, the caller of the method sees that error raised: the
\* call does not return, neither a list of absent-markers nor a status.
C10_StoreErrorsNotMasked ==
    last.raise =>
        /\ last.outcome = "raise"
        /\ last.error = "StoreError"
        /\ last.values = <<>>
        /\ last.status # 0

\* A get of a bin that holds a readable value, failed by the store and
\* raised to the caller.
C10_Witness ==
    /\ last.op = "get" /\ last.raise /\ last.outcome = "raise"
    /\ \E i \in 1..Len(last.bins) :
         get_one(rec[last.key], last.bins[i], now) # None

\* C11: the reaper scan continues past failures.  When clean fails on one
\* record of the scan, the call still returns to its caller and every other
\* record the scan supplies has been cleaned: its named bins that were
\* EXPIRED are gone.
C11_ScanContinuesPastFailures ==
    (last.op = "clean" /\ last.key = "" /\ last.rejectAt \in 1..Len(ScanOrder)) =>
        /\ last.outcome = "return"
        /\ \A i \in 1..Len(ScanOrder) :
             i # last.rejectAt =>
                rec[ScanOrder[i]] = udf_clean(pre[ScanOrder[i]], last.bins, now)

\* C12: get result shape.  A get the store does not fail returns a sequence
\* as long as the list of names and in its order, repeated names included:
\* position i holds the value of name i when that bin is LIVE or plain, and
\* None when it is missing or EXPIRED; a missing bin is not an error.
C12_GetResultShape ==
    (last.op = "get" /\ ~last.raise) =>
        /\ last.outcome = "return"
        /\ Len(last.values) = Len(last.bins)
        /\ \A i \in 1..Len(last.bins) :
             LET c == pre[last.key][last.bins[i]]
                 live == IsExpireBin(c) /\ (c.expire_at = NEVER \/ now < c.expire_at)
             IN last.values[i] = IF c.kind = "plain" \/ live THEN c.value ELSE None

\* A get that named one LIVE bin twice, in a record whose other bin is
\* EXPIRED or missing, and returned the value at both places.
C12_Witness ==
    /\ last.op = "get" /\ last.outcome = "return"
    /\ Len(last.bins) >= 2 /\ last.bins[1] = last.bins[2]
    /\ IsExpireBin(pre[last.key][last.bins[1]])
    /\ now < pre[last.key][last.bins[1]].expire_at
    /\ last.values[1] = pre[last.key][last.bins[1]].value
    /\ last.values[2] = last.values[1]
    /\ \E b \in Bins : get_one(pre[last.key], b, now) = None

\* The expire_at values the codec meets: the sentinel and every timestamp.
ExpireAts == {NEVER} \cup 0..(MaxTime + MaxTTL)

C15_BatchOrderLastWriteWins ==
    /\ (last.op = "puts" /\ last.rejectAt = 0) =>
         /\ rec[last.key] = puts_from(pre[last.key], last.batch, 1, 0, now)
         /\ \A i \in 1..Len(last.batch) :
              LastFor(last.batch, i) =>
                 rec[last.key][last.batch[i].bin].value = last.batch[i].val
    /\ (last.op = "touch" /\ last.rejectAt = 0) =>
         rec[last.key] = touch_from(pre[last.key], last.batch, 1, 0, now)

\* The most recent call is a put, puts or touch that names bin b.
Rewrites(b) ==
    \/ last.op = "put" /\ last.bin = b
    \/ /\ last.op \in {"puts", "touch"}
       /\ \E i \in 1..Len(last.batch) : last.batch[i].bin = b

\* C16: never-expiring bins are permanent.  A successful put with bin_ttl -1
\* that leaves an expire-bin leaves expire_at = NEVER; a bin whose expire_at
\* is NEVER is returned with its value by get at every evaluation time; and
\* a call that is not a put, puts or touch naming the bin (get, clean, a
\* write to another bin, the passing of time) leaves the bin as it was.
C16_NeverExpiringPermanent ==
    /\ (last.op = "put" /\ Succeeded /\ last.ttl = NO_EXPIRATION
          /\ IsExpireBin(rec[last.key][last.bin])) =>
         rec[last.key][last.bin] = encode(last.val, NEVER)
    /\ \A k \in Keys, b \in Bins :
         /\ (IsExpireBin(rec[k][b]) /\ rec[k][b].expire_at = NEVER) =>
               \A t \in 0..(MaxTime + MaxTTL + 1) :
                   udf_get(rec[k], <<b>>, t) = <<rec[k][b].value>>
         /\ (IsExpireBin(pre[k][b]) /\ pre[k][b].expire_at = NEVER /\ ~Rewrites(b)) =>
               /\ rec[k][b] = pre[k][b]
               /\ (last.op = "get" /\ ~last.raise) =>
                     \A i \in 1..Len(last.bins) :
                         last.bins[i] = b => last.values[i] = pre[k][b].value

\* At the last instant of the clock a clean that named two bins removed the
\* EXPIRED one and kept the one whose expire_at is NEVER.
C16_Witness ==
    /\ last.op = "clean" /\ last.outcome = "return" /\ now = MaxTime
    /\ \E b, c \in Bins :
         /\ Named(last.bins, b) /\ Named(last.bins, c)
         /\ pre[last.key][b] # Missing /\ rec[last.key][b] = Missing
         /\ IsExpireBin(pre[last.key][c]) /\ pre[last.key][c].expire_at = NEVER
         /\ rec[last.key][c] = pre[last.key][c]

\* C17: only clean removes bins.  A bin present before a call and missing
\* after it was removed by a clean on its record that named it, and it was
\* EXPIRED at that time; get, put, puts, touch and the passing of time
\* remove no bin.
C17_OnlyCleanRemovesBins ==
    \A k \in Keys, b \in Bins :
        (pre[k][b] # Missing /\ rec[k][b] = Missing) =>
            /\ last.op = "clean" /\ last.key = k
            /\ Named(last.bins, b)
            /\ IsExpireBin(pre[k][b])
            /\ pre[k][b].expire_at # NEVER /\ pre[k][b].expire_at <= now

\* A clean removed the EXPIRED bin it named and left in the record an
\* EXPIRED bin it did not name.
C17_Witness ==
    /\ last.op = "clean" /\ last.outcome = "return"
    /\ \E b, c \in Bins :
         /\ Named(last.bins, b) /\ IsExpired(pre[last.key][b], now)
         /\ rec[last.key][b] = Missing
         /\ ~Named(last.bins, c) /\ IsExpired(pre[last.key][c], now)
         /\ rec[last.key][c] = pre[last.key][c]

CreatingWrites ==
    {PutCall(b, v, t, TRUE) : b \in Bins, v \in Values, t \in TTLs}
    \cup {PutsCall(<<e>>) : e \in {x \in PutsEntries : x.has_ttl}}

ClientWrites ==
    {PutCall(b, v, t, c) : b \in Bins, v \in Values, t \in TTLs, c \in BOOLEAN}
    \cup {PutsCall(<<e>>) : e \in PutsEntries}
    \cup {TouchCall(<<e>>) : e \in TouchEntries}

\* get returns the same for records r1 and r2, for every name and at every
\* time from t0 on.
SameReads(r1, r2, t0) ==
    \A t \in t0..(MaxTime + MaxTTL), b \in Bins :
        udf_get(r1, <<b>>, t) = udf_get(r2, <<b>>, t)

\* Request c, made at any time from t0 on, returns the same status on r1 and
\* on r2, and every get after it returns the same.
SameAfter(r1, r2, c, t0) ==
    \A t \in t0..MaxTime :
        LET a1 == client_apply(r1, t, MODULE_NAME, c, FALSE, 0)
            a2 == client_apply(r2, t, MODULE_NAME, c, FALSE, 0)
        IN a1.status = a2.status /\ SameReads(a1.rec, a2.rec, t)

C20_CleanNeverRemovesLive ==
    (last.op = "clean" /\ last.key \in DOMAIN rec) =>
        /\ \A b \in Bins :
             LET c == pre[last.key][b]
             IN (IsExpireBin(c) /\ (c.expire_at = NEVER \/ c.expire_at > now)) =>
                   rec[last.key][b] = c
        /\ \A s \in Snapshots(pre[last.key]) :
             rec[last.key] = clean_call(pre[last.key], s, last.bins, now).rec

\* A clean kept a named bin that is LIVE with a timestamp in the future,
\* rewritten since a snapshot in which it was EXPIRED, and removed a named
\* bin that is EXPIRED.
C20_Witness ==
    /\ last.op = "clean" /\ last.outcome = "return" /\ last.key \in DOMAIN rec
    /\ \E b, c \in Bins :
         /\ Named(last.bins, b) /\ Named(last.bins, c)
         /\ IsExpireBin(pre[last.key][b]) /\ pre[last.key][b].expire_at > now
         /\ rec[last.key][b] = pre[last.key][b]
         /\ \E s \in Snapshots(pre[last.key]) : IsExpired(s[b], now)
         /\ IsExpired(pre[last.key][c], now) /\ rec[last.key][c] = Missing

====
